---- MODULE Spec2Model ----
(***************************************************************************)
(* A model of neu_calendar_server.py: the feed cache                       *)
(* (fetch_calendar_data), the event normalizer (extract_event_details,    *)
(* get_all_events) and the date-range selection of the query tools.       *)
(***************************************************************************)
EXTENDS Integers, Sequences, FiniteSets, TLC

(***************************************************************************)
(* Bounds of the model.                                                    *)
(***************************************************************************)
\* datetime.datetime.now() takes the values 0..MaxTime; one unit is 30 minutes.
MaxTime == 4
\* Number of concurrently running invocations of fetch_calendar_data.
NumCalls == 2
\* Number of different calendars the upstream feed can serve.
NumDocs == 2

Calls == 1..NumCalls
Docs == 1..NumDocs

\* None of Python where a time or a calendar is expected, and where an
\* exception is.
None == -1
NoException == "none"

(***************************************************************************)
(* The feed cache.                                                         *)
(***************************************************************************)
\* calendar_cache["cache_duration"]: timedelta(hours=1), in units of 30 minutes.
cache_duration == 2

\* Why the request of a call fails: client.get or raise_for_status raises
\* (lines 40-41), or Calendar.from_ical raises on the body (line 44).
Causes == {"fetch", "parse"}

VARIABLES
    calendar_cache,  \* the module-level dict: [last_fetch, data]
    clock,           \* the wall clock read by datetime.datetime.now()
    pc,              \* pc[c]: where invocation c of fetch_calendar_data is
    now,             \* now[c]: the local variable now of invocation c
    exc,             \* exc[c]: the exception in flight in invocation c
    result,          \* result[c]: what invocation c returned or raised
    requests,        \* requests[c]: network requests issued by invocation c
    overtaken,       \* history: overtaken[c], another call refreshed the cache
                     \* since invocation c tested it at line 33
    everSucceeded,   \* history: some fetch has completed successfully
    lastRefresh      \* history: [last_fetch, data] of the latest successful fetch,
                     \* and whether it replaced a later last_fetch

cacheVars == <<calendar_cache, clock, pc, now, exc, result, requests, overtaken,
               everSucceeded, lastRefresh>>

VARIABLES
    calendar,        \* the calendar get_all_events works on: cal.walk()
    events,          \* what get_all_events returned or raised
    record,          \* the component handed to extract_event_details
    details,         \* what extract_event_details returned or raised
    today,           \* datetime.date.today()
    tool,            \* the query tool invoked, with its arguments
    selected         \* the events the tool selected

toolVars == <<calendar, events, record, details, today, tool, selected>>

vars == <<cacheVars, toolVars>>

NoResult == [kind |-> "none", doc |-> None, cause |-> NoException, via |-> "none"]

\* Line 33-35: the condition under which the cache is refreshed.
NeedsRefreshNoBoundary(cache, t) ==
    \/ cache.last_fetch = None
    \/ cache.data = None
    \/ t - cache.last_fetch >= cache_duration

NeedsRefresh(cache, t) ==
    \/ cache.last_fetch = None
    \/ cache.data = None
    \/ t - cache.last_fetch > cache_duration

\* A refresh that would read the clock again when it stores the snapshot.
UpdateCacheStampedAtStore(cache, t, cal) == [last_fetch |-> clock, data |-> cal]

\* Lines 47-48: both entries are assigned with no await in between.
UpdateCacheTorn(cache, t, cal) == [cache EXCEPT !.last_fetch = t]

UpdateCache(cache, t, cal) == [last_fetch |-> t, data |-> cal]

\* Lines 51-57: the except branch, given the exception and the cache.
HandleExceptionNoFallback(cache, e) ==
    [kind |-> "raise", doc |-> None, cause |-> e, via |-> "except"]

HandleExceptionSwallowed(cache, e) ==
    [kind |-> "return", doc |-> cache.data, cause |-> NoException, via |-> "except"]

HandleException(cache, e) ==
    IF cache.data # None
    THEN [kind |-> "return", doc |-> cache.data, cause |-> NoException, via |-> "except"]
    ELSE [kind |-> "raise", doc |-> None, cause |-> e, via |-> "except"]

\* The cache after the except branch: lines 51-57 assign nothing.
CacheAfterFailureStamped(cache, t) == [cache EXCEPT !.last_fetch = t]

CacheAfterFailureCleared(cache, t) == [cache EXCEPT !.data = None]

CacheAfterFailure(cache, t) == cache

\* The state of the variables of a part of the model that is not running.
Pending == [state |-> "pending", list |-> <<>>]
NoTool == [name |-> "none", days |-> 0, text |-> <<>>]

ToolsIdle ==
    /\ calendar = <<>>
    /\ events = Pending
    /\ record = <<>>
    /\ details = Pending
    /\ today = 0
    /\ tool = NoTool
    /\ selected = Pending

CacheInit ==
    /\ calendar_cache = [last_fetch |-> None, data |-> None]
    /\ clock = 0
    /\ pc = [c \in Calls |-> "idle"]
    /\ now = [c \in Calls |-> 0]
    /\ exc = [c \in Calls |-> NoException]
    /\ result = [c \in Calls |-> NoResult]
    /\ requests = [c \in Calls |-> 0]
    /\ overtaken = [c \in Calls |-> FALSE]
    /\ everSucceeded = FALSE
    /\ lastRefresh = [last_fetch |-> None, data |-> None, wentBack |-> FALSE]

\* Time passes between two steps of the event loop.
Tick ==
    /\ clock < MaxTime
    /\ clock' = clock + 1
    /\ UNCHANGED <<calendar_cache, pc, now, exc, result, requests, overtaken,
                   everSucceeded, lastRefresh>>
    /\ UNCHANGED toolVars

\* Lines 30-40 and 59: a call reads the clock and tests the cache; it
\* returns the cached calendar (line 59) or issues the request and suspends
\* at the await of line 40.
Call(c) ==
    /\ pc[c] \in {"idle", "done"}
    /\ overtaken' = [overtaken EXCEPT ![c] = FALSE]
    /\ exc' = [exc EXCEPT ![c] = NoException]
    /\ IF NeedsRefresh(calendar_cache, clock)
       THEN /\ pc' = [pc EXCEPT ![c] = "awaiting"]
            /\ now' = [now EXCEPT ![c] = clock]
            /\ requests' = [requests EXCEPT ![c] = 1]
            /\ result' = [result EXCEPT ![c] = NoResult]
       ELSE /\ pc' = [pc EXCEPT ![c] = "done"]
            /\ now' = [now EXCEPT ![c] = 0]
            /\ requests' = [requests EXCEPT ![c] = 0]
            /\ result' = [result EXCEPT ![c] =
                   [kind |-> "return", doc |-> calendar_cache.data,
                    cause |-> NoException, via |-> "cache"]]
    /\ UNCHANGED <<calendar_cache, clock, everSucceeded, lastRefresh>>
    /\ UNCHANGED toolVars

\* Lines 40-50: the response arrives, has a 2xx status and parses; the cache
\* is updated and the parsed calendar returned.
ResponseOk(c, cal) ==
    /\ pc[c] = "awaiting"
    /\ calendar_cache' = UpdateCache(calendar_cache, now[c], cal)
    /\ result' = [result EXCEPT ![c] =
           [kind |-> "return", doc |-> cal, cause |-> NoException, via |-> "fetch"]]
    /\ pc' = [pc EXCEPT ![c] = "done"]
    /\ now' = [now EXCEPT ![c] = 0]
    /\ everSucceeded' = TRUE
    /\ lastRefresh' = [last_fetch |-> now[c], data |-> cal,
                       wentBack |-> now[c] < calendar_cache.last_fetch]
    /\ overtaken' = [d \in Calls |-> d # c /\ pc[d] \in {"awaiting", "unwinding"}]
    /\ UNCHANGED <<clock, exc, requests>>
    /\ UNCHANGED toolVars

\* Lines 40, 41 or 44 raise; the exception leaves the async with block,
\* whose exit is awaited before the except clause runs.
ResponseFail(c, e) ==
    /\ pc[c] = "awaiting"
    /\ exc' = [exc EXCEPT ![c] = e]
    /\ pc' = [pc EXCEPT ![c] = "unwinding"]
    /\ UNCHANGED <<calendar_cache, clock, now, result, requests, overtaken,
                   everSucceeded, lastRefresh>>
    /\ UNCHANGED toolVars

\* An except clause that would send the request of line 40 once more.
RequestsAfterExceptRetried(n) == n + 1

\* Lines 51-57: the except clause prints, then returns or raises; it has no
\* loop and no client.get, so the call has issued the n requests it had.
RequestsAfterExcept(n) == n

\* Lines 51-57: the except clause.
HandleFailure(c) ==
    /\ pc[c] = "unwinding"
    /\ result' = [result EXCEPT ![c] = HandleException(calendar_cache, exc[c])]
    /\ calendar_cache' = CacheAfterFailure(calendar_cache, now[c])
    /\ requests' = [requests EXCEPT ![c] = RequestsAfterExcept(requests[c])]
    /\ pc' = [pc EXCEPT ![c] = "done"]
    /\ now' = [now EXCEPT ![c] = 0]
    /\ exc' = [exc EXCEPT ![c] = NoException]
    /\ UNCHANGED <<clock, overtaken, everSucceeded, lastRefresh>>
    /\ UNCHANGED toolVars

CacheNext ==
    \/ Tick
    \/ \E c \in Calls : Call(c)
    \/ \E c \in Calls, cal \in Docs : ResponseOk(c, cal)
    \/ \E c \in Calls, e \in Causes : ResponseFail(c, e)
    \/ \E c \in Calls : HandleFailure(c)

\* The feed cache under concurrent calls; no tool is modelled here.
Init == CacheInit /\ ToolsIdle

Spec == Init /\ [][CacheNext]_vars

(***************************************************************************)
(* Python values used by the normalizer and the query tools.               *)
(***************************************************************************)
\* A str is a sequence of characters; Str turns a TLA+ tuple of characters
\* into one, for readability.

\* An optional value: Python's None, or a value.
Absent == [present |-> FALSE, val |-> <<>>]
Some(v) == [present |-> TRUE, val |-> v]

\* Truthiness of an optional str: None and "" are falsy.
Truthy(o) == o.present /\ o.val # <<>>

Digits == <<"0", "1", "2", "3", "4", "5", "6", "7", "8", "9">>
IsDigit(ch) == \E i \in 1..10 : Digits[i] = ch
DigitValue(ch) == (CHOOSE i \in 1..10 : Digits[i] = ch) - 1

\* ord(ch), for the characters that occur in a formatted date.
Ord(ch) == IF ch = "-" THEN 45 ELSE 48 + DigitValue(ch)

\* str < str and str <= str of Python: lexicographic by code point.
StrLess(a, b) ==
    LET n == IF Len(a) < Len(b) THEN Len(a) ELSE Len(b)
        diff == {i \in 1..n : a[i] # b[i]}
    IN  IF diff = {}
        THEN Len(a) < Len(b)
        ELSE LET i == CHOOSE j \in diff : \A k \in diff : j <= k
             IN  Ord(a[i]) < Ord(b[i])

StrLessEq(a, b) == a = b \/ StrLess(a, b)

\* A date, datetime or timedelta object of the datetime module.
Date(y, m, d) ==
    [type |-> "date", year |-> y, month |-> m, day |-> d, hour |-> 0, minute |-> 0]
DateTime(y, m, d, hh, mm) ==
    [type |-> "datetime", year |-> y, month |-> m, day |-> d, hour |-> hh, minute |-> mm]
TimeDelta(n) ==
    [type |-> "timedelta", year |-> 0, month |-> 0, day |-> n, hour |-> 0, minute |-> 0]

\* n formatted in w decimal digits with leading zeros.
RECURSIVE ZeroPadded(_, _)
ZeroPadded(n, w) ==
    IF w = 0 THEN <<>> ELSE Append(ZeroPadded(n \div 10, w - 1), Digits[(n % 10) + 1])

\* date.strftime("%Y-%m-%d"), for the years 1000..9999.
StrftimeDate(d) ==
    ZeroPadded(d.year, 4) \o <<"-">> \o ZeroPadded(d.month, 2) \o <<"-">>
        \o ZeroPadded(d.day, 2)

\* datetime.strftime("%H:%M").
StrftimeTime(d) == ZeroPadded(d.hour, 2) \o <<":">> \o ZeroPadded(d.minute, 2)

\* The calendar arithmetic of datetime: date + timedelta goes through the
\* proleptic Gregorian ordinal (toordinal, fromordinal).
IsLeap(y) == y % 4 = 0 /\ (y % 100 # 0 \/ y % 400 = 0)

DaysInMonth(y, m) ==
    IF m = 2 THEN (IF IsLeap(y) THEN 29 ELSE 28)
    ELSE IF m \in {4, 6, 9, 11} THEN 30 ELSE 31

DaysBeforeYear(y) ==
    LET p == y - 1 IN p * 365 + (p \div 4) - (p \div 100) + (p \div 400)

RECURSIVE DaysBeforeMonth(_, _)
DaysBeforeMonth(y, m) ==
    IF m = 1 THEN 0 ELSE DaysBeforeMonth(y, m - 1) + DaysInMonth(y, m - 1)

ToOrdinal(d) == DaysBeforeYear(d.year) + DaysBeforeMonth(d.year, d.month) + d.day

FromOrdinal(o) ==
    LET n0 == o - 1
        n400 == n0 \div 146097
        r400 == n0 % 146097
        n100 == r400 \div 36524
        r100 == r400 % 36524
        n4 == r100 \div 1461
        r4 == r100 % 1461
        n1 == r4 \div 365
        n == r4 % 365
        year == n400 * 400 + 1 + n100 * 100 + n4 * 4 + n1
    IN  IF n1 = 4 \/ n100 = 4
        THEN Date(year - 1, 12, 31)
        ELSE LET m == CHOOSE k \in 1..12 :
                          /\ DaysBeforeMonth(year, k) <= n
                          /\ n < DaysBeforeMonth(year, k) + DaysInMonth(year, k)
             IN  Date(year, m, n - DaysBeforeMonth(year, m) + 1)

\* date + datetime.timedelta(days=n).
AddDays(d, n) == FromOrdinal(ToOrdinal(d) + n)

(***************************************************************************)
(* str and float operations used by extract_event_details.                 *)
(***************************************************************************)
\* The outcome of an expression that may raise.
Ok(v) == [ok |-> TRUE, val |-> v]
Raised(v) == [ok |-> FALSE, val |-> v]

\* A float: (-1)^neg * mant / 10^scale, with no trailing fraction zeros.
Float(n, m, sc) == [neg |-> n, mant |-> m, scale |-> sc]
ZeroFloat == Float(FALSE, 0, 0)

RECURSIVE Normalized(_)
Normalized(f) ==
    IF f.mant = 0 THEN ZeroFloat
    ELSE IF f.scale > 0 /\ f.mant % 10 = 0
         THEN Normalized(Float(f.neg, f.mant \div 10, f.scale - 1))
         ELSE f

\* str.strip(): whitespace removed at both ends.
RECURSIVE Strip(_)
Strip(str) ==
    IF str = <<>> THEN <<>>
    ELSE IF Head(str) = " " THEN Strip(Tail(str))
    ELSE IF str[Len(str)] = " " THEN Strip(SubSeq(str, 1, Len(str) - 1))
    ELSE str

\* str.split(sep) for a one-character separator.
RECURSIVE Split(_, _)
Split(str, sep) ==
    LET at == {i \in 1..Len(str) : str[i] = sep}
    IN  IF at = {} THEN <<str>>
        ELSE LET i == CHOOSE j \in at : \A k \in at : j <= k
             IN  <<SubSeq(str, 1, i - 1)>> \o Split(SubSeq(str, i + 1, Len(str)), sep)

\* sub in str.
Contains(sub, str) ==
    \E i \in 0..(Len(str) - Len(sub)) : SubSeq(str, i + 1, i + Len(sub)) = sub

\* The value of a run of decimal digits.
RECURSIVE DecimalValue(_)
DecimalValue(ds) ==
    IF ds = <<>> THEN 0
    ELSE 10 * DecimalValue(SubSeq(ds, 1, Len(ds) - 1)) + DigitValue(ds[Len(ds)])

\* float(str): optional blanks, an optional sign, digits with at most one
\* point and at least one digit; anything else raises ValueError.
ParseFloat(str) ==
    LET t == Strip(str)
        signed == t # <<>> /\ Head(t) \in {"-", "+"}
        body == IF signed THEN Tail(t) ELSE t
        points == {i \in 1..Len(body) : body[i] = "."}
        digits == SelectSeq(body, IsDigit)
    IN  IF /\ \A i \in 1..Len(body) : IsDigit(body[i]) \/ body[i] = "."
           /\ Cardinality(points) <= 1
           /\ digits # <<>>
        THEN Ok(Normalized(Float(signed /\ Head(t) = "-",
                                 DecimalValue(digits),
                                 IF points = {} THEN 0
                                 ELSE Len(body) - (CHOOSE i \in points : TRUE))))
        ELSE Raised(ZeroFloat)

\* An object handed to float(): a float already, or a str.
FloatObj(f) == [t |-> "float", f |-> f, s |-> <<>>]
StrObj(str) == [t |-> "str", f |-> ZeroFloat, s |-> str]

\* float(x).
ToFloat(x) == IF x.t = "float" THEN Ok(x.f) ELSE ParseFloat(x.s)

\* The number of digits of str from position i on.
RECURSIVE DigitRun(_, _)
DigitRun(str, i) ==
    IF i <= Len(str) /\ IsDigit(str[i]) THEN 1 + DigitRun(str, i + 1) ELSE 0

\* Where a match of [-+]?\d*\.\d+|\d+ that starts at i ends (exclusive),
\* or 0 when there is none.
NumberEnd(str, i) ==
    LET j == IF str[i] \in {"-", "+"} THEN i + 1 ELSE i
        k == j + DigitRun(str, j)
    IN  IF k <= Len(str) /\ str[k] = "." /\ DigitRun(str, k + 1) >= 1
        THEN k + 1 + DigitRun(str, k + 1)
        ELSE IF DigitRun(str, i) >= 1 THEN i + DigitRun(str, i) ELSE 0

\* re.findall(r'[-+]?\d*\.\d+|\d+', str), scanning from position i.
RECURSIVE FindNumbers(_, _)
FindNumbers(str, i) ==
    IF i > Len(str) THEN <<>>
    ELSE LET e == NumberEnd(str, i)
         IN  IF e = 0 THEN FindNumbers(str, i + 1)
             ELSE <<SubSeq(str, i, e - 1)>> \o FindNumbers(str, e)

(***************************************************************************)
(* The event normalizer: extract_event_details and get_all_events.         *)
(***************************************************************************)
\* A property of a component, as component.get finds it: st is "absent",
\* "value", or "raises" when reading or converting the value raises.
\* A text property (SUMMARY, LOCATION, DESCRIPTION, URL) carries a str.
NoText == [st |-> "absent", text |-> <<>>]
Text(str) == [st |-> "value", text |-> str]
BadText == [st |-> "raises", text |-> <<>>]

\* DTSTART and DTEND carry a date, datetime or timedelta in .dt.
NoObject == [type |-> "none", year |-> 0, month |-> 0, day |-> 0, hour |-> 0, minute |-> 0]
NoTime == [st |-> "absent", dt |-> NoObject]
Time(d) == [st |-> "value", dt |-> d]
BadTime == [st |-> "raises", dt |-> NoObject]

\* GEO: an object with latitude and longitude attributes ("vGeo"), a tuple
\* or list ("tuple"), or a str ("str"); items are the attributes or the
\* elements, chars the characters of the str.
NoGeo == [st |-> "absent", shape |-> "none", items |-> <<>>, chars |-> <<>>]
BadGeo == [st |-> "raises", shape |-> "none", items |-> <<>>, chars |-> <<>>]
GeoObject(lat, lon) ==
    [st |-> "value", shape |-> "vGeo", items |-> <<lat, lon>>, chars |-> <<>>]
GeoTuple(xs) == [st |-> "value", shape |-> "tuple", items |-> xs, chars |-> <<>>]
GeoStr(str) == [st |-> "value", shape |-> "str", items |-> <<>>, chars |-> str]

\* CATEGORIES: a list whose items are strs or objects with a cats
\* attribute ("list"), bytes ("bytes"), a str ("str"), an object with a
\* cats attribute ("cats"), or something else ("other"). An item is
\* [kind, str, cats]; decodes tells whether bytes decode as UTF-8.
NoCategories ==
    [st |-> "absent", shape |-> "none", items |-> <<>>, chars |-> <<>>,
     decodes |-> TRUE]
BadCategories ==
    [st |-> "raises", shape |-> "none", items |-> <<>>, chars |-> <<>>,
     decodes |-> TRUE]
StrItem(str) == [kind |-> "str", str |-> str, cats |-> <<>>]
CatsItem(cs) == [kind |-> "cats", str |-> <<>>, cats |-> cs]
OtherItem == [kind |-> "other", str |-> <<>>, cats |-> <<>>]
CategoryList(xs) ==
    [st |-> "value", shape |-> "list", items |-> xs, chars |-> <<>>, decodes |-> TRUE]
CategoryBytes(str, dec) ==
    [st |-> "value", shape |-> "bytes", items |-> <<>>, chars |-> str, decodes |-> dec]
CategoryStr(str) ==
    [st |-> "value", shape |-> "str", items |-> <<>>, chars |-> str, decodes |-> TRUE]
CategoryObject(cs) ==
    [st |-> "value", shape |-> "cats", items |-> <<CatsItem(cs)>>, chars |-> <<>>,
     decodes |-> TRUE]
CategoryOther ==
    [st |-> "value", shape |-> "other", items |-> <<>>, chars |-> <<>>,
     decodes |-> TRUE]

\* Lines 66, 110, 115, 120, 201: str(component.get(KEY, default)).
ReadText(prop, default) ==
    IF prop.st = "raises" THEN Raised(<<>>)
    ELSE IF prop.st = "absent" THEN Ok(default)
    ELSE Ok(prop.text)

\* Lines 108-122: a text field inside its own try; "" when the read raises.
GuardedText(prop) ==
    LET r == ReadText(prop, <<>>) IN IF r.ok THEN r.val ELSE <<>>

\* Lines 69-86 and 89-106: the date object and the "%H:%M" time of DTSTART
\* or DTEND; (None, None) when the property is absent or reading it raises.
ReadDateTime(prop) ==
    IF prop.st # "value"
    THEN [date |-> NoObject, time |-> Absent]
    ELSE IF prop.dt.type = "datetime"
         THEN [date |-> Date(prop.dt.year, prop.dt.month, prop.dt.day),
               time |-> Some(StrftimeTime(prop.dt))]
         ELSE [date |-> prop.dt, time |-> Absent]

\* Lines 184 and 186: d.strftime("%Y-%m-%d") if d else None. A timedelta of
\* zero is falsy; any other timedelta has no strftime and raises.
FormatIfSet(d) ==
    IF d.type = "none" \/ (d.type = "timedelta" /\ d.day = 0) THEN Ok(Absent)
    ELSE IF d.type = "date" THEN Ok(Some(StrftimeDate(d)))
    ELSE Raised(Absent)

NoGeoData == [present |-> FALSE, latitude |-> ZeroFloat, longitude |-> ZeroFloat]

\* {"latitude": float(a), "longitude": float(b)}, or the except clause of
\* line 146 when a conversion raises.
GeoPair(a, b) ==
    LET lat == ToFloat(a)
        lon == ToFloat(b)
    IN  IF lat.ok /\ lon.ok
        THEN [present |-> TRUE, latitude |-> lat.val, longitude |-> lon.val]
        ELSE NoGeoData

\* Lines 125-148: the if/elif chain over the GEO value, in one try.
GeoData(prop) ==
    LET isStr == prop.shape = "str"
        length == IF isStr THEN Len(prop.chars) ELSE Len(prop.items)
    IN  IF prop.st # "value" THEN NoGeoData
        ELSE IF prop.shape # "vGeo" /\ length = 0 THEN NoGeoData
        ELSE IF prop.shape = "vGeo"
             THEN GeoPair(prop.items[1], prop.items[2])
        ELSE IF length >= 2
             THEN IF isStr
                  THEN GeoPair(StrObj(<<prop.chars[1]>>), StrObj(<<prop.chars[2]>>))
                  ELSE GeoPair(prop.items[1], prop.items[2])
        ELSE IF isStr /\ Contains(<<";">>, prop.chars)
             THEN LET parts == Split(prop.chars, ";")
                  IN  IF Len(parts) >= 2
                      THEN GeoPair(StrObj(parts[1]), StrObj(parts[2]))
                      ELSE NoGeoData
        ELSE IF isStr
             THEN LET numbers == FindNumbers(prop.chars, 1)
                  IN  IF Len(numbers) >= 2
                      THEN GeoPair(StrObj(numbers[1]), StrObj(numbers[2]))
                      ELSE NoGeoData
        ELSE NoGeoData

\* [c.strip() for c in strs if c.strip()].
RECURSIVE StrippedNonEmpty(_)
StrippedNonEmpty(strs) ==
    IF strs = <<>> THEN <<>>
    ELSE (IF Strip(Head(strs)) # <<>> THEN <<Strip(Head(strs))>> ELSE <<>>)
             \o StrippedNonEmpty(Tail(strs))

\* Lines 158-163: the categories a list contributes, item by item.
RECURSIVE CategoriesOfItems(_)
CategoriesOfItems(xs) ==
    IF xs = <<>> THEN <<>>
    ELSE LET x == Head(xs)
         IN  (IF x.kind = "str" THEN StrippedNonEmpty(Split(x.str, ","))
              ELSE IF x.kind = "cats" THEN StrippedNonEmpty(x.cats)
              ELSE <<>>) \o CategoriesOfItems(Tail(xs))

\* Lines 151-179: the categories of the CATEGORIES value.
Categories(prop) ==
    IF prop.st # "value" THEN <<>>
    ELSE IF prop.shape = "list" THEN CategoriesOfItems(prop.items)
    ELSE IF prop.shape = "bytes"
         THEN IF prop.chars = <<>> THEN <<>>
              ELSE IF prop.decodes THEN StrippedNonEmpty(Split(prop.chars, ","))
              ELSE StrippedNonEmpty(Split(<<"b", "'">> \o prop.chars \o <<"'">>, ","))
    ELSE IF prop.shape = "str"
         THEN StrippedNonEmpty(Split(prop.chars, ","))
    ELSE IF prop.shape = "cats" THEN StrippedNonEmpty(prop.items[1].cats)
    ELSE <<>>

UnknownEvent == <<"U", "n", "k", "n", "o", "w", "n", " ", "E", "v", "e", "n", "t">>

\* Lines 200-211: the minimal event of the outer except clause.
MinimalEvent(summary) ==
    [summary |-> summary, start_date |-> Absent, start_time |-> Absent,
     end_date |-> Absent, end_time |-> Absent, location |-> <<>>,
     description |-> <<>>, url |-> <<>>, geo |-> NoGeoData, categories |-> <<>>]

\* Lines 196-211: the outer except clause reads SUMMARY again, outside any
\* try: when that read raises, extract_event_details raises.
OuterExcept(component) ==
    LET again == ReadText(component.SUMMARY, UnknownEvent)
    IN  IF again.ok THEN Ok(MinimalEvent(again.val))
        ELSE Raised(MinimalEvent(<<>>))

\* Lines 61-211.
extract_event_details(component) ==
    LET event_summary == ReadText(component.SUMMARY, <<>>)
        start == ReadDateTime(component.DTSTART)
        end == ReadDateTime(component.DTEND)
        start_date == FormatIfSet(start.date)
        end_date == FormatIfSet(end.date)
    IN  IF ~event_summary.ok \/ ~start_date.ok \/ ~end_date.ok
        THEN OuterExcept(component)
        ELSE Ok([summary |-> event_summary.val,
                 start_date |-> start_date.val,
                 start_time |-> start.time,
                 end_date |-> end_date.val,
                 end_time |-> end.time,
                 location |-> GuardedText(component.LOCATION),
                 description |-> GuardedText(component.DESCRIPTION),
                 url |-> GuardedText(component.URL),
                 geo |-> GeoData(component.GEO),
                 categories |-> Categories(component.CATEGORIES)])

\* Line 226: the sort key.
Sentinel == <<"9", "9", "9", "9", "-", "1", "2", "-", "3", "1">>
SortKey(x) == IF Truthy(x.start_date) THEN x.start_date.val ELSE Sentinel

\* list.sort(key=...): a stable sort, here by insertion from the left.
RECURSIVE SortedByKey(_)
SortedByKey(xs) ==
    IF xs = <<>> THEN <<>>
    ELSE LET front == SortedByKey(SubSeq(xs, 1, Len(xs) - 1))
             x == xs[Len(xs)]
             n == Cardinality({i \in 1..Len(front) :
                                   ~StrLess(SortKey(x), SortKey(front[i]))})
         IN  SubSeq(front, 1, n) \o <<x>> \o SubSeq(front, n + 1, Len(front))

IsVEvent(component) == component.name = "VEVENT"

\* Lines 220-223: the extraction of every VEVENT of cal.walk(), in order.
RECURSIVE ExtractAll(_)
ExtractAll(components) ==
    IF components = <<>> THEN <<>>
    ELSE <<extract_event_details(Head(components))>> \o ExtractAll(Tail(components))

\* Lines 218-228, given the calendar that fetch_calendar_data returned:
\* an exception of extract_event_details leaves get_all_events.
get_all_events(cal) ==
    LET extracted == ExtractAll(SelectSeq(cal, IsVEvent))
    IN  IF \E i \in 1..Len(extracted) : ~extracted[i].ok
        THEN Raised(<<>>)
        ELSE Ok(SortedByKey([i \in 1..Len(extracted) |-> extracted[i].val]))

(***************************************************************************)
(* Calendars the normalizer is run on.                                     *)
(***************************************************************************)
\* The longest walk of a calendar, in components.
MaxRecords == 2
\* The longest GEO str, in characters.
MaxGeoLen == 3

Talk == <<"T", "a", "l", "k">>
Gala == <<"G", "a", "l", "a">>
Hall == <<"H", "a", "l", "l">>

BaseEvent ==
    [name |-> "VEVENT",
     SUMMARY |-> Text(Talk),
     DTSTART |-> Time(Date(2024, 3, 10)),
     DTEND |-> Time(Date(2024, 3, 11)),
     LOCATION |-> Text(Hall),
     DESCRIPTION |-> Text(<<"a", " ", "t", "a", "l", "k">>),
     URL |-> Text(<<"u">>),
     GEO |-> GeoObject(FloatObj(Float(FALSE, 4234, 2)), FloatObj(Float(TRUE, 7108, 2))),
     CATEGORIES |-> CategoryObject(<<<<"A", "r", "t">>, <<" ", "S", "k", "i", " ">>>>)]

\* A record none of whose properties can be read.
BrokenEvent ==
    [name |-> "VEVENT", SUMMARY |-> BadText, DTSTART |-> BadTime, DTEND |-> BadTime,
     LOCATION |-> BadText, DESCRIPTION |-> BadText, URL |-> BadText,
     GEO |-> BadGeo, CATEGORIES |-> BadCategories]

StartValues ==
    {NoTime, BadTime, Time(Date(2024, 3, 9)), Time(DateTime(2024, 3, 10, 9, 30)),
     Time(Date(9999, 12, 31)), Time(TimeDelta(0)), Time(TimeDelta(1))}

RecordComponents ==
    {BaseEvent, BrokenEvent, [BaseEvent EXCEPT !.name = "VTIMEZONE"],
     [BrokenEvent EXCEPT !.SUMMARY = Text(Gala)],
     [BaseEvent EXCEPT !.SUMMARY = NoText, !.DTSTART = Time(TimeDelta(1))],
     [BaseEvent EXCEPT !.SUMMARY = Text(Gala), !.DTSTART = NoTime]}
    \cup {[BaseEvent EXCEPT !.SUMMARY = v] : v \in {NoText, BadText, Text(Gala)}}
    \cup {[BaseEvent EXCEPT !.DTSTART = v] : v \in StartValues}
    \cup {[BaseEvent EXCEPT !.DTEND = v] :
              v \in {NoTime, BadTime, Time(DateTime(2024, 3, 10, 17, 5)), Time(TimeDelta(1))}}
    \cup {[BaseEvent EXCEPT !.LOCATION = v] : v \in {NoText, BadText}}
    \cup {[BaseEvent EXCEPT !.DESCRIPTION = v] : v \in {NoText, BadText}}
    \cup {[BaseEvent EXCEPT !.URL = v] : v \in {NoText, BadText}}
    \cup {[BaseEvent EXCEPT !.GEO = v] :
              v \in {NoGeo, BadGeo, GeoTuple(<<StrObj(<<"4">>), StrObj(<<"x">>)>>)}}
    \cup {[BaseEvent EXCEPT !.CATEGORIES = v] :
              v \in {NoCategories, BadCategories, CategoryOther,
                     CategoryStr(<<"A", ",", " ", "B", " ", ",", ",">>),
                     CategoryBytes(<<"A", ",", "B">>, TRUE),
                     CategoryBytes(<<"A", ",", "B">>, FALSE),
                     CategoryList(<<StrItem(<<"A", ",", "B">>), OtherItem,
                                    CatsItem(<<<<"C">>, <<" ">>>>)>>)}}

\* The sequences over S of length at most n.
SeqsUpTo(S, n) == UNION {[1..k -> S] : k \in 0..n}

Calendars == SeqsUpTo(RecordComponents, MaxRecords)

GeoAlphabet == {"4", "2", ".", "-", ";", "x"}

\* The GEO str of the specification's example: "42.34;-71.08".
ExampleGeo == <<"4", "2", ".", "3", "4", ";", "-", "7", "1", ".", "0", "8">>

GeoValues ==
    {NoGeo, BadGeo, GeoStr(ExampleGeo),
     GeoStr(<<"4", "2", " ", "2", "4">>), GeoStr(<<"x", "4", " ", "2">>)}
    \cup {GeoStr(str) : str \in SeqsUpTo(GeoAlphabet, MaxGeoLen)}
    \cup {GeoObject(a, b) : a, b \in {FloatObj(Float(FALSE, 4234, 2)), StrObj(<<"x">>)}}
    \cup {GeoTuple(xs) :
              xs \in SeqsUpTo({FloatObj(Float(TRUE, 7108, 2)), StrObj(<<"4", ".", "2">>),
                               StrObj(<<"x">>)}, 2)}

Returned(r) == [state |-> IF r.ok THEN "returned" ELSE "raised", list |-> r.val]

(***************************************************************************)
(* The normalizer run on one calendar: get_all_events.                     *)
(***************************************************************************)
NormInit ==
    /\ CacheInit
    /\ calendar \in Calendars
    /\ events = Pending
    /\ record = <<>>
    /\ details = Pending
    /\ today = 0
    /\ tool = NoTool
    /\ selected = Pending

\* Lines 218-228.
GetAllEvents ==
    /\ events = Pending
    /\ events' = Returned(get_all_events(calendar))
    /\ UNCHANGED <<calendar, record, details, today, tool, selected>>
    /\ UNCHANGED cacheVars

NormNext == GetAllEvents

NormSpec == NormInit /\ [][NormNext]_vars

(***************************************************************************)
(* extract_event_details run on one record, over the shapes of GEO.        *)
(***************************************************************************)
GeoInit ==
    /\ CacheInit
    /\ calendar = <<>>
    /\ events = Pending
    /\ record \in {[BaseEvent EXCEPT !.GEO = g] : g \in GeoValues}
    /\ details = Pending
    /\ today = 0
    /\ tool = NoTool
    /\ selected = Pending

\* Lines 61-211.
ExtractEventDetails ==
    /\ details = Pending
    /\ details' = Returned(LET r == extract_event_details(record)
                           IN  [ok |-> r.ok, val |-> <<r.val>>])
    /\ UNCHANGED <<calendar, events, record, today, tool, selected>>
    /\ UNCHANGED cacheVars

GeoNext == ExtractEventDetails

GeoSpec == GeoInit /\ [][GeoNext]_vars

(***************************************************************************)
(* The query tools: the events they select.                                *)
(***************************************************************************)
UpperCase ==
    <<"A", "B", "C", "D", "E", "F", "G", "H", "I", "J", "K", "L", "M",
      "N", "O", "P", "Q", "R", "S", "T", "U", "V", "W", "X", "Y", "Z">>
LowerCase ==
    <<"a", "b", "c", "d", "e", "f", "g", "h", "i", "j", "k", "l", "m",
      "n", "o", "p", "q", "r", "s", "t", "u", "v", "w", "x", "y", "z">>

\* str.lower().
Lower(str) ==
    [i \in 1..Len(str) |->
        IF \E k \in 1..26 : UpperCase[k] = str[i]
        THEN LowerCase[CHOOSE k \in 1..26 : UpperCase[k] = str[i]]
        ELSE str[i]]

\* Lines 286, 346 and 394:
\* event["start_date"] and today_str <= event["start_date"] <= end_date_str.
InDateRangeOpenEnd(event, today_str, end_date_str) ==
    /\ Truthy(event.start_date)
    /\ StrLessEq(today_str, event.start_date.val)
    /\ StrLess(event.start_date.val, end_date_str)

InDateRange(event, today_str, end_date_str) ==
    /\ Truthy(event.start_date)
    /\ StrLessEq(today_str, event.start_date.val)
    /\ StrLessEq(event.start_date.val, end_date_str)

\* Line 347: query in summary.lower() or query in description.lower().
MatchesQuery(event, query) ==
    Contains(query, Lower(event.summary)) \/ Contains(query, Lower(event.description))

\* Line 395: any(category in cat.lower() for cat in event["categories"]).
MatchesCategory(event, category) ==
    \E i \in 1..Len(event.categories) : Contains(category, Lower(event.categories[i]))

\* Lines 277-287: upcoming_events of get_upcoming_events(days).
upcoming_events(all_events, day, days) ==
    LET today_str == StrftimeDate(day)
        end_date_str == StrftimeDate(AddDays(day, days))
        Keep(event) == InDateRange(event, today_str, end_date_str)
    IN  SelectSeq(all_events, Keep)

\* Lines 335-348: matching_events of search_events(query, days).
matching_events(all_events, day, text, days) ==
    LET today_str == StrftimeDate(day)
        end_date_str == StrftimeDate(AddDays(day, days))
        query == Lower(text)
        Keep(event) ==
            InDateRange(event, today_str, end_date_str) /\ MatchesQuery(event, query)
    IN  SelectSeq(all_events, Keep)

\* Lines 383-396: category_events of get_events_by_category(category, days).
category_events(all_events, day, text, days) ==
    LET today_str == StrftimeDate(day)
        end_date_str == StrftimeDate(AddDays(day, days))
        category == Lower(text)
        Keep(event) ==
            InDateRange(event, today_str, end_date_str) /\ MatchesCategory(event, category)
    IN  SelectSeq(all_events, Keep)

\* The longest calendar the tools are run on, and the largest days argument.
MaxQueryRecords == 2
MaxDays == 3

\* The day of the specification's example, a day before a leap day and a
\* day before the end of a year.
Todays == {Date(2024, 3, 10), Date(2024, 2, 27), Date(2023, 12, 30)}

QueryDates ==
    {Date(2024, 1, 2), Date(2024, 1, 3), Date(2024, 3, 1), Date(2024, 3, 9),
     Date(2024, 3, 13), Date(2024, 3, 14), Date(2024, 3, 15)}

QueryComponents ==
    {[BaseEvent EXCEPT !.DTSTART = Time(d)] : d \in QueryDates}
    \cup {[BaseEvent EXCEPT !.DTSTART = NoTime],
          [BaseEvent EXCEPT !.DTSTART = Time(DateTime(2024, 3, 13, 23, 59))],
          [BaseEvent EXCEPT !.SUMMARY = Text(Gala), !.DESCRIPTION = NoText,
                            !.DTSTART = Time(Date(2024, 3, 10)),
                            !.CATEGORIES = CategoryStr(<<"F", "u", "n">>)],
          [BaseEvent EXCEPT !.SUMMARY = BadText]}

QueryCalendars == SeqsUpTo(QueryComponents, MaxQueryRecords)

QueryDays == (0 - 1)..MaxDays
QueryTexts == {<<>>, <<"G", "A">>, <<"t", "a", "l", "k">>}
CategoryTexts == {<<"s", "k">>, <<"F", "U", "N">>}

QueryInit ==
    /\ CacheInit
    /\ calendar \in QueryCalendars
    /\ events = Pending
    /\ record = <<>>
    /\ details = Pending
    /\ today \in Todays
    /\ tool = NoTool
    /\ selected = Pending

\* What a tool selects from the events of the calendar: the try of the tool
\* catches an exception of get_all_events. A tool keeps nothing from one
\* invocation to the next, so a behaviour has one invocation.
Selection(all, chosen) ==
    IF all.ok THEN [state |-> "returned", list |-> chosen]
    ELSE [state |-> "raised", list |-> <<>>]

\* Lines 266-320, up to the selection.
GetUpcomingEvents(days) ==
    /\ tool = NoTool
    /\ tool' = [name |-> "get_upcoming_events", days |-> days, text |-> <<>>]
    /\ LET all == get_all_events(calendar)
       IN  selected' = Selection(all, upcoming_events(all.val, today, days))
    /\ UNCHANGED <<calendar, events, record, details, today>>
    /\ UNCHANGED cacheVars

\* Lines 323-368, up to the selection.
SearchEvents(query, days) ==
    /\ tool = NoTool
    /\ tool' = [name |-> "search_events", days |-> days, text |-> query]
    /\ LET all == get_all_events(calendar)
       IN  selected' = Selection(all, matching_events(all.val, today, query, days))
    /\ UNCHANGED <<calendar, events, record, details, today>>
    /\ UNCHANGED cacheVars

\* Lines 371-429, up to the selection.
GetEventsByCategory(category, days) ==
    /\ tool = NoTool
    /\ tool' = [name |-> "get_events_by_category", days |-> days, text |-> category]
    /\ LET all == get_all_events(calendar)
       IN  selected' = Selection(all, category_events(all.val, today, category, days))
    /\ UNCHANGED <<calendar, events, record, details, today>>
    /\ UNCHANGED cacheVars

QueryNext ==
    \/ \E days \in QueryDays : GetUpcomingEvents(days)
    \/ \E query \in QueryTexts, days \in QueryDays : SearchEvents(query, days)
    \/ \E category \in CategoryTexts, days \in QueryDays :
           GetEventsByCategory(category, days)

QuerySpec == QueryInit /\ [][QueryNext]_vars

(***************************************************************************)
(* Properties of the feed cache.                                           *)
(***************************************************************************)
Fresh(cache, t) ==
    /\ cache.last_fetch # None
    /\ cache.data # None
    /\ t - cache.last_fetch <= cache_duration

\* The step in which invocation c ends, returning or raising.
Ends(c) ==
    \/ Call(c) /\ pc'[c] = "done"
    \/ \E cal \in Docs : ResponseOk(c, cal)
    \/ HandleFailure(c)

\* C1: once some fetch has succeeded, a call whose fetch or parse fails
\* does not raise: it returns the document stored by the most recent
\* successful fetch.
C1_StaleFallback ==
    [][\A c \in Calls :
          (HandleFailure(c) /\ everSucceeded) =>
              /\ result'[c].kind = "return"
              /\ result'[c].doc = lastRefresh.data]_cacheVars

C1_Witness ==
    \E c \in Calls :
        /\ pc[c] = "done"
        /\ result[c].via = "except"
        /\ result[c].kind = "return"
        /\ result[c].doc = lastRefresh.data

\* C2: a call raises if and only if its fetch attempt failed and no fetch
\* has ever succeeded; the error carries the cause of the failure, and a
\* call that returns never returns an absent document.
C2_FailsOnlyOnColdFailure ==
    [][\A c \in Calls :
          Ends(c) =>
              /\ result'[c].kind \in {"return", "raise"}
              /\ (result'[c].kind = "raise") <=>
                     (pc[c] = "unwinding" /\ ~everSucceeded)
              /\ (result'[c].kind = "raise") =>
                     (result'[c].cause = exc[c] /\ exc[c] \in Causes)
              /\ (result'[c].kind = "return") => (result'[c].doc \in Docs)]_cacheVars

C2_Witness ==
    \E c \in Calls :
        /\ pc[c] = "done"
        /\ result[c].kind = "raise"
        /\ result[c].cause \in Causes
        /\ ~everSucceeded

\* C3: a call made while a snapshot is present and now - last_fetch is at
\* most one hour (the boundary included) returns the snapshot's document,
\* issues no network request and leaves the snapshot unchanged; so it
\* returns what the fetch that stored the snapshot returned, and the two
\* queries together cause one network fetch.
C3_FreshHit ==
    [][\A c \in Calls :
          (Call(c) /\ Fresh(calendar_cache, clock)) =>
              /\ pc'[c] = "done"
              /\ result'[c].kind = "return"
              /\ result'[c].doc = calendar_cache.data
              /\ result'[c].doc = lastRefresh.data
              /\ requests'[c] = 0
              /\ calendar_cache' = calendar_cache]_cacheVars

\* A call served from a snapshot exactly one hour old.
C3_Witness ==
    \E c \in Calls :
        /\ pc[c] = "done"
        /\ result[c].via = "cache"
        /\ requests[c] = 0
        /\ calendar_cache.last_fetch # None
        /\ clock - calendar_cache.last_fetch = cache_duration

\* C4 as stated: when the fetch or parse fails, the document and last_fetch
\* keep their values, the snapshot is still stale and the next call goes to
\* the network again.
C4_FailedRefreshLeavesStale ==
    [][\A c \in Calls :
          HandleFailure(c) =>
              /\ calendar_cache' = calendar_cache
              /\ NeedsRefresh(calendar_cache', clock')]_cacheVars

\* C4, amended: when the fetch or parse fails, the document and last_fetch
\* keep their values; unless a concurrent call has refreshed the snapshot
\* since this call found it stale, the snapshot is still stale and the
\* next call goes to the network again.
C4_FailedRefreshKeepsSnapshot ==
    [][\A c \in Calls :
          HandleFailure(c) =>
              /\ calendar_cache' = calendar_cache
              /\ ~overtaken[c] => NeedsRefresh(calendar_cache', clock')]_cacheVars

\* A failed refresh of a stale, present snapshot.
C4_Witness ==
    \E c \in Calls :
        /\ pc[c] = "done"
        /\ result[c].via = "except"
        /\ ~overtaken[c]
        /\ calendar_cache.data # None
        /\ NeedsRefresh(calendar_cache, clock)

\* C5: the stored document is absent if and only if no fetch has ever
\* succeeded; the document and last_fetch are both absent or both present;
\* a present document never becomes absent again.
C5_DocumentAbsentIffNeverFetched ==
    [][/\ (calendar_cache.data = None) <=> ~everSucceeded
       /\ (calendar_cache.data = None) <=> (calendar_cache.last_fetch = None)
       /\ (calendar_cache'.data = None) <=> ~everSucceeded'
       /\ (calendar_cache'.data = None) <=> (calendar_cache'.last_fetch = None)
       /\ (calendar_cache.data # None) => (calendar_cache'.data # None)]_cacheVars

\* The snapshot after a failed refresh that followed a successful one.
C5_Witness ==
    /\ everSucceeded
    /\ calendar_cache.data \in Docs
    /\ \E c \in Calls : pc[c] = "done" /\ result[c].via = "except"

\* C6: in every state a call can observe, last_fetch and the document of
\* the snapshot are those of one and the same refresh, the latest to have
\* succeeded.
C6_AtomicReplace ==
    /\ calendar_cache.last_fetch = lastRefresh.last_fetch
    /\ calendar_cache.data = lastRefresh.data

\* A refresh has replaced the snapshot while another call is in flight.
C6_Witness ==
    \E c \in Calls, d \in Calls :
        /\ c # d
        /\ pc[c] = "done"
        /\ result[c].via = "fetch"
        /\ pc[d] \in {"awaiting", "unwinding"}
        /\ overtaken[d]

\* C11: a call of fetch_calendar_data issues at most one network request.
\* Once its request has failed, the call ends, by returning the stale
\* document or by raising, with no further request; a request is issued
\* only by the step that starts a call.
C11_NoInternalRetry ==
    [][\A c \in Calls :
          /\ requests[c] <= 1
          /\ requests'[c] <= 1
          /\ (requests'[c] # requests[c]) => (pc[c] \in {"idle", "done"})
          /\ (pc[c] = "unwinding" /\ pc'[c] # "unwinding")
                 => /\ Ends(c)
                    /\ result'[c].via = "except"
                    /\ result'[c].kind \in {"return", "raise"}
                    /\ requests'[c] = 1]_cacheVars

\* A call whose only request failed has ended, and a later call is making
\* the next attempt.
C11_Witness ==
    \E c \in Calls, d \in Calls :
        /\ c # d
        /\ pc[c] = "done"
        /\ result[c].via = "except"
        /\ requests[c] = 1
        /\ pc[d] = "awaiting"
        /\ requests[d] = 1
        /\ now[d] > 0

\* C12 as stated: under every interleaving of the calls that found the
\* snapshot stale, the stored last_fetch never decreases: a refresh that
\* completes later never stores an earlier stamp than the one it replaces.
C12_LastFetchNeverDecreases ==
    [][(calendar_cache.last_fetch # None)
          => (calendar_cache'.last_fetch >= calendar_cache.last_fetch)]_cacheVars

\* C12, amended: a refresh stamps the snapshot with the time its own call
\* read when it started, whenever it completes; the stored last_fetch
\* decreases only when the refresh that completes was overtaken, another
\* call having refreshed the snapshot while this one was in flight.
C12_LastFetchIsStartOfLastRefresh ==
    [][\A c \in Calls :
          (\E cal \in Docs : ResponseOk(c, cal))
             => /\ calendar_cache'.last_fetch = now[c]
                /\ calendar_cache'.data = result'[c].doc
                /\ calendar_cache'.last_fetch <= clock'
                /\ (/\ calendar_cache.last_fetch # None
                    /\ calendar_cache'.last_fetch < calendar_cache.last_fetch)
                       => overtaken[c]
                /\ ~overtaken[c]
                       => calendar_cache'.last_fetch >= calendar_cache.last_fetch]_cacheVars

\* The refresh of a call that started earlier has replaced the snapshot of
\* a call that started later: the stored stamp went back.
C12_Witness ==
    /\ lastRefresh.wentBack
    /\ calendar_cache.last_fetch = lastRefresh.last_fetch

(***************************************************************************)
(* Properties of the event normalizer.                                     *)
(***************************************************************************)
EventFields ==
    {"summary", "start_date", "start_time", "end_date", "end_time", "location",
     "description", "url", "geo", "categories"}

\* The VEVENT records of the calendar, and their events in source order.
Records == SelectSeq(calendar, IsVEvent)
Extracted == [i \in 1..Len(Records) |-> extract_event_details(Records[i]).val]

\* What the claim lets the event of record r be: its summary is the one of
\* the record or a placeholder, and a field whose read fails has its default.
IsolatedEventOf(e, r) ==
    /\ DOMAIN e = EventFields
    /\ e.summary \in {r.SUMMARY.text, <<>>, UnknownEvent}
    /\ r.SUMMARY.st = "value" => e.summary = r.SUMMARY.text
    /\ r.DTSTART.st # "value" => (e.start_date = Absent /\ e.start_time = Absent)
    /\ r.DTEND.st # "value" => (e.end_date = Absent /\ e.end_time = Absent)
    /\ r.LOCATION.st # "value" => e.location = <<>>
    /\ r.DESCRIPTION.st # "value" => e.description = <<>>
    /\ r.URL.st # "value" => e.url = <<>>
    /\ r.GEO.st # "value" => e.geo = NoGeoData
    /\ r.CATEGORIES.st # "value" => e.categories = <<>>

\* The one-to-one maps of 1..n onto itself.
Orderings(n) ==
    {f \in [1..n -> 1..n] : \A i, j \in 1..n : f[i] = f[j] => i = j}

\* C7: for every calendar get_all_events never raises and returns one
\* event per VEVENT record, each with all ten fields, whichever reads fail,
\* the read of SUMMARY included; the event of a record has the fields whose
\* read failed at their defaults and the record's summary or a placeholder.
C7_PerRecordIsolation ==
    events # Pending =>
        /\ events.state = "returned"
        /\ Len(events.list) = Len(Records)
        /\ \E f \in Orderings(Len(Records)) :
               \A i \in 1..Len(Records) : IsolatedEventOf(events.list[i], Records[f[i]])

\* C8: the result is a permutation of the extracted events, non-decreasing
\* by start_date, every event without a start_date after all those with
\* one, events with equal start_date in source order, and no start_date
\* other than the one extracted.
C8_SortedByStartDate ==
    events.state = "returned" =>
        LET out == events.list
            n == Len(out)
        IN  /\ n = Len(Extracted)
            /\ \E f \in Orderings(n) :
                   /\ \A i \in 1..n : out[i] = Extracted[f[i]]
                   /\ \A i, j \in 1..n :
                          (i < j /\ out[i].start_date = out[j].start_date) => f[i] < f[j]
            /\ \A i, j \in 1..n :
                   i < j =>
                       /\ out[j].start_date.present => out[i].start_date.present
                       /\ (out[i].start_date.present /\ out[j].start_date.present) =>
                              StrLessEq(out[i].start_date.val, out[j].start_date.val)

\* The chain of the claim for the structured and the iterable shape: the
\* first strategy that yields two floats.
ClaimedGeoOfPair(g) ==
    IF g.shape = "vGeo" \/ (g.shape = "tuple" /\ Len(g.items) >= 2)
    THEN GeoPair(g.items[1], g.items[2])
    ELSE NoGeoData

\* str is "lat;lon": two parts around one semicolon, each a float.
IsLatLon(str) ==
    LET parts == Split(str, ";")
    IN  Len(parts) = 2 /\ ParseFloat(parts[1]).ok /\ ParseFloat(parts[2]).ok

\* C9: the strategies are tried in order and the first to yield two floats
\* decides; in particular a GEO str "lat;lon" yields latitude lat and
\* longitude lon, and a value with no parseable numeric pair yields absent.
C9_GeoFallbackChain ==
    details.state = "returned" =>
        LET g == record.GEO
            geo == details.list[1].geo
        IN  /\ g.st # "value" => geo = NoGeoData
            /\ (g.st = "value" /\ g.shape \in {"vGeo", "tuple"}) =>
                   geo = ClaimedGeoOfPair(g)
            /\ (g.st = "value" /\ g.shape = "str" /\ IsLatLon(g.chars)) =>
                   geo = GeoPair(StrObj(Split(g.chars, ";")[1]),
                                 StrObj(Split(g.chars, ";")[2]))
            /\ (g.st = "value" /\ g.shape = "str"
                    /\ Len(SelectSeq(g.chars, IsDigit)) < 2) =>
                   geo = NoGeoData

(***************************************************************************)
(* Properties of the query tools.                                          *)
(***************************************************************************)
\* The date a "YYYY-MM-DD" str denotes.
DateOfStr(str) ==
    Date(DecimalValue(SubSeq(str, 1, 4)), DecimalValue(SubSeq(str, 6, 7)),
         DecimalValue(SubSeq(str, 9, 10)))

\* The event starts on one of the days today .. today + days.
StartsWithin(event, day, days) ==
    /\ event.start_date.present
    /\ ToOrdinal(day) <= ToOrdinal(DateOfStr(event.start_date.val))
    /\ ToOrdinal(DateOfStr(event.start_date.val)) <= ToOrdinal(day) + days

\* C10: for every today and days = N each tool selects, among the events
\* its text condition admits, exactly those whose start_date is present
\* with today <= start_date <= today + N days, both bounds included.
C10_DateRangeFilter ==
    selected.state = "returned" =>
        LET all == get_all_events(calendar).val
            Claimed(event) ==
                /\ StartsWithin(event, today, tool.days)
                /\ tool.name = "search_events" =>
                       MatchesQuery(event, Lower(tool.text))
                /\ tool.name = "get_events_by_category" =>
                       MatchesCategory(event, Lower(tool.text))
        IN  selected.list = SelectSeq(all, Claimed)

\* get_upcoming_events(days=3) on 2024-03-10 has kept an event of
\* 2024-03-13 and dropped one of 2024-03-14.
C10_Witness ==
    /\ today = Date(2024, 3, 10)
    /\ tool = [name |-> "get_upcoming_events", days |-> 3, text |-> <<>>]
    /\ selected.state = "returned"
    /\ Len(calendar) = 2
    /\ calendar[1].DTSTART = Time(Date(2024, 3, 14))
    /\ calendar[2].DTSTART = Time(Date(2024, 3, 13))
    /\ Len(selected.list) = 1
    /\ selected.list[1].start_date = Some(StrftimeDate(Date(2024, 3, 13)))

====
